---- MODULE Spec2Model ----
(***************************************************************************)
(* Model of the polling engine of devic-cli (pollChat / pollThread, the    *)
(* second half of src/src/client.ts) together with the command wrapper     *)
(* withAction of src/src/helpers.ts that turns the outcome of a poll call  *)
(* into output and an exit code.                                           *)
(*                                                                         *)
(* One behaviour is one command invocation that polls one resource.  The   *)
(* async function is cut at its two suspension points (the awaited fetch   *)
(* and the awaited sleep); the code between two suspension points runs     *)
(* without interleaving and is one action.                                 *)
(*                                                                         *)
(* Intervals are JavaScript numbers that need not be integers (1000 * 1.5  *)
(* * 1.5 ...); they are modelled exactly as fractions [n, d].              *)
(***************************************************************************)
EXTENDS Integers, Sequences, FiniteSets, TLC

\* ------------------------------------------------------------------ bounds
MaxFetches == 3     \* fetches issued by one poll call in the model
MaxLatency == 2     \* ms a slow fetch takes
MaxInit == 3     \* largest initialIntervalMs override
MaxTimeout == 4     \* largest timeoutMs override

\* ------------------------------------------------------- fractions (numbers)
Frac(n, d) == [n |-> n, d |-> d]
FracOfInt(i) == Frac(i, 1)
FracMul(a, b) == Frac(a.n * b.n, a.d * b.d)
FracLeq(a, b) == a.n * b.d <= b.n * a.d
FracLt(a, b) == a.n * b.d < b.n * a.d
FracEq(a, b) == a.n * b.d = b.n * a.d
\* Math.min
FracMin(a, b) == IF FracLeq(a, b) THEN a ELSE b

\* ------------------------------------------------------------ status values
\* type RealtimeStatus
RealtimeStatus ==
  {"processing", "completed", "error", "waiting_for_tool_response", "handed_off"}

\* enum AgentThreadState
AgentThreadState ==
  {"queued", "processing", "completed", "failed", "terminated", "paused",
   "paused_for_approval", "approval_rejected", "waiting_for_response",
   "paused_for_resume", "handed_off", "guardrail_trigger"}

\* The status field is whatever string the JSON body of the response holds:
\* request<T>() casts the parsed body without validating it.
UnrecognizedStatus == {"some_future_status", ""}

ChatStatusValues == RealtimeStatus \cup UnrecognizedStatus
ThreadStateValues == AgentThreadState \cup UnrecognizedStatus

\* tasks?: AgentTaskDto[]  (only the completed flag of each task is kept)
NoTasks == [present |-> FALSE, list |-> <<>>]
TaskList(l) == [present |-> TRUE, list |-> l]
TaskLists == {TaskList(<<>>), TaskList(<<TRUE, FALSE>>), TaskList(<<TRUE, TRUE>>)}

\* The bodies the server may answer with.  A chat snapshot has no task list;
\* task lists are enumerated on threads that are processing, and a completed
\* thread may carry its finished list.
Snapshots(k) ==
  IF k = "chat"
    THEN {[status |-> s, tasks |-> NoTasks] : s \in ChatStatusValues}
    ELSE {[status |-> s, tasks |-> NoTasks] : s \in ThreadStateValues}
         \cup {[status |-> "processing", tasks |-> t] : t \in TaskLists}
         \cup {[status |-> "completed", tasks |-> TaskList(<<TRUE, TRUE>>)]}

NoResult == [status |-> "<no result>", tasks |-> NoTasks, seq |-> 0]

\* ------------------------------------------------------------- poll options
OptionKeys == {"initialIntervalMs", "backoffMultiplier", "maxIntervalMs", "timeoutMs"}

CHAT_POLL_DEFAULTS ==
  [initialIntervalMs |-> 1000, backoffMultiplier |-> Frac(3, 2),
   maxIntervalMs |-> 10000, timeoutMs |-> 5 * 60 * 1000]

\* variant: the chat defaults pasted for threads
THREAD_POLL_DEFAULTS_AsChat ==
  [initialIntervalMs |-> 1000, backoffMultiplier |-> Frac(3, 2),
   maxIntervalMs |-> 10000, timeoutMs |-> 5 * 60 * 1000]


THREAD_POLL_DEFAULTS ==
  [initialIntervalMs |-> 2000, backoffMultiplier |-> Frac(3, 2),
   maxIntervalMs |-> 15000, timeoutMs |-> 10 * 60 * 1000]

PollDefaults(k) == IF k = "chat" THEN CHAT_POLL_DEFAULTS ELSE THREAD_POLL_DEFAULTS

\* opts?: Partial<PollOptions>: the keys that are given, and their values.
Multipliers == {Frac(1, 2), Frac(1, 1), Frac(3, 2), Frac(2, 1)}
OverrideValues ==
  [initialIntervalMs : {1, MaxInit}, backoffMultiplier : Multipliers,
   maxIntervalMs : {2}, timeoutMs : {-1, 0, MaxTimeout}]
PartialOptions ==
  {[given |-> OptionKeys, val |-> v] : v \in OverrideValues}
  \cup {[given |-> {}, val |-> CHAT_POLL_DEFAULTS]}

\* variant: the spread in the wrong order, { ...opts, ...DEFAULTS }
MergeOptionsDefaultsWin(defaults, opts) == defaults

\* { ...DEFAULTS, ...opts }
MergeOptions(defaults, opts) ==
  [key \in OptionKeys |->
     IF key \in opts.given THEN opts.val[key] ELSE defaults[key]]

\* -------------------------------------------------------------------- errors
NoError ==
  [cls |-> "none", message |-> <<>>, code |-> "", exitCode |-> 0,
   statusCode |-> 0, errorType |-> ""]

\* new DevicCliError(message, code, exitCode)
DevicCliError(message, code, exitCode) ==
  [cls |-> "DevicCliError", message |-> message, code |-> code,
   exitCode |-> exitCode, statusCode |-> 0, errorType |-> ""]

\* new DevicApiError({statusCode, message, error})
DevicApiError(statusCode, errorType) ==
  [cls |-> "DevicApiError", message |-> <<"api error message">>, code |-> "",
   exitCode |-> 0, statusCode |-> statusCode, errorType |-> errorType]

\* what fetch() or response.json() itself throws (TypeError, SyntaxError)
PlainError ==
  [cls |-> "Error", message |-> <<"fetch failed">>, code |-> "",
   exitCode |-> 0, statusCode |-> 0, errorType |-> ""]

\* EXIT_CODES
EXIT_SUCCESS == 0
EXIT_ERROR == 1
EXIT_AUTH_REQUIRED == 2
EXIT_POLL_TIMEOUT == 3

\* Non-2xx answers of the API: the status code and the optional error type
\* of the body ("" when the body carries none).  The error types are the
\* API's own names (HTTP reason phrases); POLL_TIMEOUT is a code of the CLI
\* and is taken not to be among them.
HttpFailures ==
  {DevicApiError(401, ""), DevicApiError(401, "Unauthorized"),
   DevicApiError(404, "Not Found"), DevicApiError(500, "")}

\* request<T>(): the failures a read request can end with
FetchFailures == HttpFailures \cup {PlainError}

\* createClient: throw new DevicCliError('Not authenticated. ...',
\* 'AUTH_REQUIRED', EXIT_CODES.AUTH_REQUIRED)
AuthRequiredError ==
  DevicCliError(<<"Not authenticated.">>,
                "AUTH_REQUIRED", EXIT_AUTH_REQUIRED)

\* the poll call's own failure
PollTimeoutError(k) ==
  DevicCliError(
    <<IF k = "chat" THEN "Polling timed out waiting for chat completion"
                    ELSE "Polling timed out waiting for thread completion">>,
    "POLL_TIMEOUT", 3)

\* DevicApiError.toJSON / DevicCliError.toJSON; a plain Error is reported by
\* withAction as { error: message, code: 'UNKNOWN_ERROR' }
HttpCode(statusCode) ==
  CASE statusCode = 401 -> "HTTP_401"
    [] statusCode = 404 -> "HTTP_404"
    [] statusCode = 500 -> "HTTP_500"
    [] OTHER -> "HTTP_other"
ErrorToJSON(e) ==
  CASE e.cls = "DevicApiError" ->
         [error |-> e.message,
          code |-> IF e.errorType # "" THEN e.errorType ELSE HttpCode(e.statusCode),
          statusCode |-> e.statusCode]
    [] e.cls = "DevicCliError" ->
         [error |-> e.message, code |-> e.code, statusCode |-> 0]
    [] OTHER ->
         [error |-> e.message, code |-> "UNKNOWN_ERROR", statusCode |-> 0]

\* variant: a 401 answer is not told from the other API errors
ExitCodeOfWithout401(e) ==
  CASE e.cls = "DevicCliError" -> e.exitCode
    [] OTHER -> 1

\* variant: the exitCode of a DevicCliError is ignored
ExitCodeOfIgnoringCliCode(e) ==
  CASE e.cls = "DevicApiError" ->
         IF e.statusCode = 401 THEN 2 ELSE 1
    [] OTHER -> 1

\* the process.exit argument chosen by the catch block of withAction
ExitCodeOf(e) ==
  CASE e.cls = "DevicApiError" ->
         IF e.statusCode = 401 THEN EXIT_AUTH_REQUIRED ELSE EXIT_ERROR
    [] e.cls = "DevicCliError" -> e.exitCode
    [] OTHER -> EXIT_ERROR

NoReport == [error |-> <<>>, code |-> "", statusCode |-> 0]

\* variant: 'error' forgotten in the chat terminal set
CHAT_TERMINAL_NoError == {"completed"}

\* ------------------------------------------------------------ state policies
CHAT_TERMINAL == {"completed", "error"}
\* variant: handed_off taken for a terminal thread state
THREAD_TERMINAL_HandedOff == {"completed", "failed", "terminated", "handed_off"}


THREAD_TERMINAL == {"completed", "failed", "terminated"}

\* variant: only the states known to be in progress keep the loop going
ChatStopsUnlessInProgress(status) ==
  status \notin {"processing", "handed_off"}

\* the two return tests of the loop body of pollChat
ChatStops(status) ==
  status \in CHAT_TERMINAL \/ status = "waiting_for_tool_response"

\* the two return tests of the loop body of pollThread
ThreadStops(state) ==
  state \in THREAD_TERMINAL \/ state = "paused_for_approval"

\* variant: the early-return tests are missing
StopsTerminalOnly(k, status) ==
  IF k = "chat" THEN status \in {"completed", "error"}
                ELSE status \in {"completed", "failed", "terminated"}


Stops(k, status) == IF k = "chat" THEN ChatStops(status) ELSE ThreadStops(status)

\* variant: every observation is notified
StatusChangedAlways(status, last) == TRUE

\* result.status !== lastStatus
StatusChanged(status, last) == status # last

\* variant: the data of the status line lacks the status
NotificationWithoutStatus(k, rid, snap) ==
  [type |-> IF k = "chat" THEN "chat_status" ELSE "thread_status",
   id |-> rid, status |-> "", tasks |-> snap.tasks]

\* the arguments of the statusLine call
Notification(k, rid, snap) ==
  [type |-> IF k = "chat" THEN "chat_status" ELSE "thread_status",
   id |-> rid, status |-> snap.status, tasks |-> snap.tasks]

\* await fetch(url, ...): the answer comes at once or after MaxLatency ms;
\* nothing in the client bounds the time a request takes
FetchLatencies == {0, MaxLatency}

\* ------------------------------------------------------------ status lines
OutputFormats == {"json", "human"}

\* variant: the completed flag is not looked at
CompletedCountAll(l) == Len(l)

\* tasks.filter(t => t.completed).length
CompletedCount(l) == Cardinality({i \in DOMAIN l : l[i]})

NoProgress == <<>>

\* statusLine(type, data): what is written, and where.  In human format a
\* line goes to stderr with the status and, for a thread with a non-empty
\* task list, "(tasks: done/total)"; otherwise the data, task list included,
\* goes to stdout as one NDJSON object.
StatusLineOutput(fmt, n) ==
  IF fmt = "human"
    THEN [stream |-> "stderr", type |-> n.type, id |-> n.id,
          status |-> n.status, tasks |-> NoTasks,
          progress |-> IF n.type = "thread_status" /\ n.tasks.present
                            /\ Len(n.tasks.list) > 0
                         THEN <<CompletedCount(n.tasks.list), Len(n.tasks.list)>>
                         ELSE NoProgress]
    ELSE [stream |-> "stdout", type |-> n.type, id |-> n.id,
          status |-> n.status, tasks |-> n.tasks, progress |-> NoProgress]

\* -------------------------------------------------------------- error output
NothingWritten == [stream |-> "", form |-> "", fields |-> {}]

\* outputError(error): what is written to stderr.  In human format the lines
\* "**Error:** ...", "Code: ..." (unless the code is empty) and "Status: ..."
\* (unless the status code is absent or 0); otherwise JSON.stringify(error)
OutputError(fmt, error) ==
  IF fmt = "human"
    THEN [stream |-> "stderr", form |-> "text",
          fields |-> {"error"}
                       \cup (IF error.code # "" THEN {"code"} ELSE {})
                       \cup (IF error.statusCode # 0 THEN {"statusCode"} ELSE {})]
    ELSE [stream |-> "stderr", form |-> "json",
          fields |-> {"error", "code"}
                       \cup (IF error.statusCode # 0 THEN {"statusCode"} ELSE {})]

\* ------------------------------------------------------------- configuration
\* undefined
None == "undefined"
DEFAULT_BASE_URL == "https://api.devic.ai"

\* a ?? b
Coalesce(a, b) == IF a # None THEN a ELSE b

\* !!value of an optional string
Truthy(value) == value # None /\ value # ""

\* let globalBaseUrl: string | undefined, assigned by setGlobalBaseUrl only,
\* which nothing in the program calls
globalBaseUrl == None

\* process.env['DEVIC_API_KEY'], process.env['DEVIC_BASE_URL']
EnvValues ==
  [apiKey : {None, "", "env-key"}, baseUrl : {None, "https://env.example"}]

\* the objects that config.json holds after JSON.parse
CliConfigs ==
  [state : {"parsed"}, apiKey : {None, "devic-1", "devic-2"},
   baseUrl : {None, "https://file.example"}]

NoFile == [state |-> "missing", apiKey |-> None, baseUrl |-> None]
CorruptFile == [state |-> "unparsable", apiKey |-> None, baseUrl |-> None]
FileValues == {NoFile, CorruptFile} \cup CliConfigs

\* readConfigFile(): {} when the file is missing or cannot be read or parsed
ReadConfigFile(f) ==
  IF f.state = "parsed" THEN [apiKey |-> f.apiKey, baseUrl |-> f.baseUrl]
                        ELSE [apiKey |-> None, baseUrl |-> None]

\* variant: the stored file is asked first
LoadConfigFileFirst(g, e, f) ==
  [apiKey |-> Coalesce(ReadConfigFile(f).apiKey, e.apiKey),
   baseUrl |-> Coalesce(g, Coalesce(ReadConfigFile(f).baseUrl,
                                     Coalesce(e.baseUrl, DEFAULT_BASE_URL)))]

\* loadConfig()
LoadConfig(g, e, f) ==
  [apiKey |-> Coalesce(e.apiKey, ReadConfigFile(f).apiKey),
   baseUrl |-> Coalesce(g, Coalesce(e.baseUrl,
                                     Coalesce(ReadConfigFile(f).baseUrl,
                                              DEFAULT_BASE_URL)))]

\* saveConfig(config): { ...existing, ...config } is written.  Both keys are
\* own properties of the argument of the only caller, so each overrides the
\* stored one, a baseUrl of undefined included (JSON.stringify drops it)
SaveConfig(f, c) ==
  [state |-> "parsed", apiKey |-> c.apiKey, baseUrl |-> c.baseUrl]

\* deleteConfig(): the file is unlinked if it exists
DeleteConfig(f) == NoFile

NoConfig == [apiKey |-> None, baseUrl |-> None]
Idle == [name |-> "idle", apiKey |-> None, baseUrl |-> None]

\* --api-key <key> (required) and --base-url <url> (optional) of auth login
LoginArgs == [name : {"login"}, apiKey : {"devic-1", "devic-2"},
              baseUrl : {None, "https://file.example"}]

\* ---------------------------------------------------------------- the driver
\* let interval = o.initialIntervalMs
InitialInterval(opt) == FracOfInt(opt.initialIntervalMs)

\* variant: the product is not clamped
NextIntervalUnclamped(iv, opt) == FracMul(iv, opt.backoffMultiplier)

\* interval = Math.min(interval * o.backoffMultiplier, o.maxIntervalMs)
NextInterval(iv, opt) ==
  FracMin(FracMul(iv, opt.backoffMultiplier), FracOfInt(opt.maxIntervalMs))

\* variant: the loop test lets an iteration start at the deadline itself
LoopConditionInclusive(t, dl) == t <= dl

\* while (Date.now() < deadline)
LoopCondition(t, dl) == t < dl

\* variant: a timer that fires at once for a delay below 1 ms
SleepMsTruncated(iv) == iv.n \div iv.d

\* setTimeout(resolve, ms): the delay is truncated to an integer and a delay
\* below 1 ms becomes 1 ms
SleepMs(iv) == LET f == iv.n \div iv.d IN IF f < 1 THEN 1 ELSE f

\* variant: the rejection is caught and rethrown as the poll's own error
WrappedError(e) == DevicCliError(e.message, "POLL_TIMEOUT", 3)

\* await client.getRealtimeHistory(...) / await client.getThread(...) stand
\* outside any try block: the rejection leaves the poll call as it is
PropagatedError(e) == e

\* variant: the thread is read with a request that writes
FetchMethodPatch(k) == IF k = "thread" THEN "PATCH" ELSE "GET"

\* getRealtimeHistory / getThread call request() without a method
FetchMethod(k) == "GET"

\* const deadline = Date.now() + o.timeoutMs
DeadlineOf(t, opt) == t + opt.timeoutMs

\* variant: sleep(interval) is called but not awaited
AfterSleepCallNotAwaited == "loop"

\* await sleep(interval): the call is suspended until the timer fires
AfterSleepCall == "sleeping"

\* variant: a do-while shaped loop that waits before it looks
EntryPointSleepFirst == "sleeping"

\* the loop test is the first statement after the initialisations: nothing is
\* awaited between the entry of the call and the first fetch
EntryPoint == "loop"

ResourceId(k) == IF k = "chat" THEN "chat-uid-1" ELSE "thread-id-1"

VARIABLES
  kind,          \* "chat" (pollChat) or "thread" (pollThread)
  id,            \* chatUid / threadId
  opts,          \* the caller's partial options
  o,             \* effective options
  interval,      \* let interval
  deadline,      \* const deadline
  lastStatus,    \* let lastStatus / lastState
  result,        \* const result of the current iteration
  pc,            \* position of the command
  now,           \* Date.now()
  startTime,     \* Date.now() at entry of the poll call
  fetchCount,    \* read requests issued by the poll call
  inflight,      \* read requests issued and not yet answered
  sleeping,      \* timers started and not yet fired
  observed,      \* statuses of the snapshots fetched, in order
  sleeps,        \* intervals passed to sleep(), in order
  notifications, \* statusLine calls, in order
  raised,        \* the failure the fetch ended with, if any
  err,           \* the error the poll call threw
  exitCode,      \* argument of process.exit, -1 while none was called
  reported,      \* argument of outputError
  printed,       \* argument of output
  apiKey,        \* loadConfig().apiKey is set
  format,        \* getOutputFormat()
  stage,         \* part of the command reached: "client", "send" or "poll"
  requests,      \* HTTP methods of the requests sent, in order
  emitted,       \* status lines written, in order
  written,       \* what outputError wrote
  env,           \* DEVIC_API_KEY and DEVIC_BASE_URL of the process
  file,          \* content of ~/.config/devic/config.json
  config,        \* value of the last loadConfig() call
  cmd,           \* the auth command under way and its options
  lastAuth       \* the last auth command that reported success

vars ==
  <<kind, id, opts, o, interval, deadline, lastStatus, result, pc, now,
    startTime, fetchCount, inflight, sleeping, observed, sleeps,
    notifications, raised, err, exitCode, reported, printed, apiKey, format,
    stage, requests, emitted, written, env, file, config, cmd, lastAuth>>

\* the environment, the stored configuration and the auth command
configVars == <<env, file, config, cmd, lastAuth>>

\* what the invocation is given and never changes
givenVars == <<kind, id, opts, apiKey, format, configVars>>

\* the locals of the poll call
pollVars == <<o, interval, deadline, lastStatus, result, startTime>>

\* the record of what the poll call did
traceVars ==
  <<fetchCount, inflight, sleeping, observed, sleeps, notifications, emitted>>

\* what withAction writes
exitVars == <<exitCode, reported, printed, written>>

\* the state in which a command starts, for given sets of inputs
Start(options, envs, files) ==
  /\ kind \in {"chat", "thread"}
  /\ id = ResourceId(kind)
  /\ opts \in options
  /\ env \in envs
  /\ file \in files
  /\ config = NoConfig
  /\ cmd = Idle
  /\ lastAuth = "none"
  /\ apiKey = Truthy(LoadConfig(globalBaseUrl, env, file).apiKey)
  /\ format \in OutputFormats
  /\ stage = "client"
  /\ requests = <<>>
  /\ emitted = <<>>
  /\ o = PollDefaults(kind)
  /\ interval = FracOfInt(0)
  /\ deadline = 0
  /\ lastStatus = ""
  /\ result = NoResult
  /\ pc = "start"
  /\ now = 0
  /\ startTime = 0
  /\ fetchCount = 0
  /\ inflight = 0
  /\ sleeping = 0
  /\ observed = <<>>
  /\ sleeps = <<>>
  /\ notifications = <<>>
  /\ raised = NoError
  /\ err = NoError
  /\ exitCode = -1
  /\ reported = NoReport
  /\ printed = NoResult
  /\ written = NothingWritten

Init ==
  Start(PartialOptions, {e \in EnvValues : e.apiKey # "" /\ e.baseUrl = None},
        {NoFile})

\* createClient with an API key: the client is built, the command goes on
CreateClient ==
  /\ pc = "start"
  /\ apiKey
  /\ stage' = "send"
  /\ pc' = "send"
  /\ UNCHANGED <<givenVars, pollVars, traceVars, exitVars, now, raised, err,
                 requests>>

\* createClient without an API key: AUTH_REQUIRED is thrown, nothing is sent
CreateClientFails ==
  /\ pc = "start"
  /\ ~apiKey
  /\ err' = AuthRequiredError
  /\ pc' = "thrown"
  /\ UNCHANGED <<givenVars, pollVars, traceVars, exitVars, now, raised, stage,
                 requests>>

\* await client.sendMessageAsync(...) / await client.createThread(...): the
\* POST that starts the operation is answered, the poll call follows
SendReturn ==
  /\ pc = "send"
  /\ requests' = Append(requests, "POST")
  /\ stage' = "poll"
  /\ pc' = "call"
  /\ UNCHANGED <<givenVars, pollVars, traceVars, exitVars, now, raised, err>>

\* the POST is rejected: the action rejects with the same error
SendThrow(e) ==
  /\ pc = "send"
  /\ requests' = Append(requests, "POST")
  /\ err' = e
  /\ pc' = "thrown"
  /\ UNCHANGED <<givenVars, pollVars, traceVars, exitVars, now, raised, stage>>

\* pollChat / pollThread up to the loop: merge the options, fix the deadline
PollEnter ==
  /\ pc = "call"
  /\ LET opt == MergeOptions(PollDefaults(kind), opts) IN
       /\ o' = opt
       /\ interval' = InitialInterval(opt)
       /\ deadline' = DeadlineOf(now, opt)
  /\ lastStatus' = ""
  /\ startTime' = now
  /\ pc' = EntryPoint
  /\ UNCHANGED <<givenVars, traceVars, exitVars, result, now, raised, err,
                 stage, requests>>

\* loop test true: the read request is sent and awaited
LoopFetch ==
  /\ pc = "loop"
  /\ LoopCondition(now, deadline)
  /\ fetchCount < MaxFetches
  /\ fetchCount' = fetchCount + 1
  /\ inflight' = inflight + 1
  /\ requests' = Append(requests, FetchMethod(kind))
  /\ pc' = "await"
  /\ UNCHANGED <<givenVars, pollVars, exitVars, now, sleeping, observed,
                 sleeps, notifications, emitted, raised, err, stage>>

\* loop test false: throw new DevicCliError(..., 'POLL_TIMEOUT', 3)
LoopTimeout ==
  /\ pc = "loop"
  /\ ~LoopCondition(now, deadline)
  /\ err' = PollTimeoutError(kind)
  /\ pc' = "thrown"
  /\ UNCHANGED <<givenVars, pollVars, traceVars, exitVars, now, raised, stage,
                 requests>>

\* the fetch resolves with a snapshot; the loop body runs up to its return or
\* up to the call of sleep(interval)
FetchReturn(snap, latency) ==
  /\ pc = "await"
  /\ now' = now + latency
  /\ inflight' = inflight - 1
  /\ LET res == [status |-> snap.status, tasks |-> snap.tasks, seq |-> fetchCount] IN
       /\ result' = res
       /\ observed' = Append(observed, res.status)
       /\ IF StatusChanged(res.status, lastStatus)
            THEN /\ lastStatus' = res.status
                 /\ notifications' = Append(notifications, Notification(kind, id, res))
                 /\ emitted' = Append(emitted,
                                 StatusLineOutput(format, Notification(kind, id, res)))
            ELSE UNCHANGED <<lastStatus, notifications, emitted>>
       /\ IF Stops(kind, res.status)
            THEN /\ pc' = "returned"
                 /\ UNCHANGED <<sleeps, sleeping>>
            ELSE /\ pc' = AfterSleepCall
                 /\ sleeps' = Append(sleeps, interval)
                 /\ sleeping' = sleeping + 1
  /\ UNCHANGED <<givenVars, exitVars, o, interval, deadline, startTime,
                 fetchCount, raised, err, stage, requests>>

\* the fetch rejects: the poll call rejects with the same error
FetchThrow(e, latency) ==
  /\ pc = "await"
  /\ now' = now + latency
  /\ inflight' = inflight - 1
  /\ raised' = e
  /\ err' = PropagatedError(e)
  /\ pc' = "thrown"
  /\ UNCHANGED <<givenVars, pollVars, exitVars, fetchCount, sleeping, observed,
                 sleeps, notifications, emitted, stage, requests>>

\* the timer fires, the interval is advanced, back to the loop test
SleepDone ==
  /\ pc = "sleeping"
  /\ now' = now + SleepMs(interval)
  /\ sleeping' = sleeping - 1
  /\ interval' = NextInterval(interval, o)
  /\ pc' = "loop"
  /\ UNCHANGED <<givenVars, exitVars, o, deadline, lastStatus, result,
                 startTime, fetchCount, inflight, observed, sleeps,
                 notifications, emitted, raised, err,
                 stage, requests>>

\* withAction, try branch: the snapshot is printed, no exit is forced
ActionOutput ==
  /\ pc = "returned"
  /\ printed' = result
  /\ pc' = "done"
  /\ UNCHANGED <<givenVars, pollVars, traceVars, exitCode, reported, written,
                 now, raised, err, stage, requests>>

\* withAction, catch branch: outputError(err.toJSON()), process.exit(code)
ActionCatch ==
  /\ pc = "thrown"
  /\ reported' = ErrorToJSON(err)
  /\ written' = OutputError(format, ErrorToJSON(err))
  /\ exitCode' = ExitCodeOf(err)
  /\ pc' = "exited"
  /\ UNCHANGED <<givenVars, pollVars, traceVars, printed, now, raised, err,
                 stage, requests>>

Next ==
  \/ CreateClient
  \/ CreateClientFails
  \/ SendReturn
  \/ \E e \in FetchFailures : SendThrow(e)
  \/ PollEnter
  \/ LoopFetch
  \/ LoopTimeout
  \/ \E snap \in Snapshots(kind), latency \in FetchLatencies :
       FetchReturn(snap, latency)
  \/ \E e \in FetchFailures, latency \in FetchLatencies : FetchThrow(e, latency)
  \/ SleepDone
  \/ ActionOutput
  \/ ActionCatch

Spec == Init /\ [][Next]_vars

\* ------------------------------------------------- termination of a poll call
\* overrides whose timeout is short enough for the call to end within
\* MaxFetches fetches (every iteration takes at least 1 ms)
LiveOptions ==
  [given : {OptionKeys},
   val : [initialIntervalMs : {1},
          backoffMultiplier : {m \in Multipliers : m.n # m.d},
          maxIntervalMs : {2}, timeoutMs : {MaxFetches}]]

LiveInit ==
  /\ Start(LiveOptions, {e \in EnvValues : e.apiKey # "" /\ e.baseUrl = None},
           {NoFile})
  /\ format = "json"

\* every awaited promise settles and every continuation is run: the fetch is
\* answered or rejected, the timer fires, the event loop runs what is ready
Fairness ==
  /\ WF_vars(CreateClient) /\ WF_vars(CreateClientFails)
  /\ WF_vars(SendReturn \/ \E e \in FetchFailures : SendThrow(e))
  /\ WF_vars(PollEnter) /\ WF_vars(LoopFetch) /\ WF_vars(LoopTimeout)
  /\ WF_vars(\/ \E snap \in Snapshots(kind), latency \in FetchLatencies :
                   FetchReturn(snap, latency)
              \/ \E e \in FetchFailures, delay \in FetchLatencies :
                   FetchThrow(e, delay))
  /\ WF_vars(SleepDone)
  /\ WF_vars(ActionOutput) /\ WF_vars(ActionCatch)

LiveSpec == LiveInit /\ [][Next]_vars /\ Fairness

\* ------------------------------------------------------- the auth commands
pollFrame ==
  <<kind, id, opts, apiKey, format, pollVars, traceVars, pc, now, raised, err,
    stage, printed>>

ConfigInit ==
  /\ Start({[given |-> {}, val |-> CHAT_POLL_DEFAULTS]}, EnvValues, FileValues)
  /\ kind = "chat"

\* any command: const config = loadConfig()
LoadConfigCall ==
  /\ cmd = Idle
  /\ config' = LoadConfig(globalBaseUrl, env, file)
  /\ UNCHANGED <<pollFrame, env, file, cmd, lastAuth, exitCode, reported,
                 written, requests>>

\* auth login, up to the awaited test request client.getAssistants()
LoginStart(args) ==
  /\ cmd = Idle
  /\ cmd' = args
  /\ requests' = <<"GET">>
  /\ exitCode' = -1
  /\ reported' = NoReport
  /\ written' = NothingWritten
  /\ UNCHANGED <<pollFrame, env, file, config, lastAuth>>

\* the test request is answered: saveConfig, then the result is returned
LoginValidated ==
  /\ cmd.name = "login"
  /\ file' = SaveConfig(file, [apiKey |-> cmd.apiKey, baseUrl |-> cmd.baseUrl])
  /\ lastAuth' = "login"
  /\ cmd' = Idle
  /\ UNCHANGED <<pollFrame, env, config, exitCode, reported, written,
                 requests>>

\* the test request is rejected: saveConfig is not reached, withAction
\* reports the error and exits
LoginRejected(e) ==
  /\ cmd.name = "login"
  /\ reported' = ErrorToJSON(e)
  /\ written' = OutputError(format, ErrorToJSON(e))
  /\ exitCode' = ExitCodeOf(e)
  /\ cmd' = Idle
  /\ UNCHANGED <<pollFrame, env, file, config, lastAuth, requests>>

\* auth logout: deleteConfig() unlinks the file, { status: 'logged_out' }
Logout ==
  /\ cmd = Idle
  /\ file' = DeleteConfig(file)
  /\ lastAuth' = "logout"
  /\ exitCode' = -1
  /\ reported' = NoReport
  /\ written' = NothingWritten
  /\ UNCHANGED <<pollFrame, env, config, cmd, requests>>

\* auth logout when unlinkSync throws: the catch block of deleteConfig
\* ignores the failure and the command reports 'logged_out' all the same
LogoutUnlinkFails ==
  /\ cmd = Idle
  /\ file # NoFile
  /\ lastAuth' = "logout"
  /\ exitCode' = -1
  /\ reported' = NoReport
  /\ written' = NothingWritten
  /\ UNCHANGED <<pollFrame, env, file, config, cmd, requests>>

ConfigNext ==
  \/ LoadConfigCall
  \/ \E args \in LoginArgs : LoginStart(args)
  \/ LoginValidated
  \/ \E e \in FetchFailures : LoginRejected(e)
  \/ Logout
  \/ LogoutUnlinkFails

ConfigSpec == ConfigInit /\ [][ConfigNext]_vars

TypeOK ==
  /\ pc \in {"start", "send", "call", "loop", "await", "sleeping", "returned",
             "thrown", "done", "exited"}
  /\ stage \in {"client", "send", "poll"}
  /\ fetchCount \in 0..MaxFetches
  /\ inflight \in 0..1
  /\ Len(observed) <= fetchCount
  /\ Len(emitted) = Len(notifications)

\* ===================================================================== claims
Last(seq) == seq[Len(seq)]
Range(seq) == {seq[i] : i \in DOMAIN seq}
Fetched == Len(observed') > Len(observed)

\* the statuses the specification names as Terminal or EarlyReturn
SpecStops(k, status) ==
  IF k = "chat"
    THEN status \in {"completed", "error", "waiting_for_tool_response"}
    ELSE status \in {"completed", "failed", "terminated", "paused_for_approval"}

\* C1: once a fetch returns a snapshot whose status is Terminal or
\* EarlyReturn, the call returns that very snapshot in the same iteration;
\* no sleep is started and no fetch is issued after such an observation.
C1_ReturnsSnapshotAtOnce ==
  [][ /\ (Fetched /\ SpecStops(kind, Last(observed')))
           => /\ pc' = "returned"
              /\ result'.status = Last(observed')
              /\ result'.seq = fetchCount
              /\ sleeps' = sleeps /\ sleeping' = 0
      /\ (observed # <<>> /\ SpecStops(kind, Last(observed)))
           => /\ fetchCount' = fetchCount /\ inflight' = 0
              /\ sleeps' = sleeps /\ sleeping' = 0
              /\ result' = result
              /\ pc' \in {"returned", "done"} ]_vars

C1_Witness ==
  /\ pc = "done"
  /\ Len(observed) = 3
  /\ Last(observed) = "waiting_for_tool_response"
  /\ printed.seq = 3
  /\ Len(sleeps) = 2

\* C2: chat policy.  For every status value a fetch of pollChat can return,
\* the call returns exactly when the status is completed, error or
\* waiting_for_tool_response; for every other value it goes on to sleep and
\* to the next loop test.
C2_ChatPolicy ==
  [][ (kind = "chat" /\ Fetched)
        => /\ (pc' = "returned")
                <=> (Last(observed') \in
                       {"completed", "error", "waiting_for_tool_response"})
           /\ (pc' # "returned") => (pc' = "sleeping" /\ sleeping' = 1) ]_vars

C2_Witness ==
  /\ kind = "chat"
  /\ observed = <<"processing", "handed_off", "error">>
  /\ pc = "returned"

\* C3: thread policy.  For every state value a fetch of pollThread can
\* return, the call returns exactly when the state is completed, failed,
\* terminated or paused_for_approval; for handed_off and every other value it
\* goes on to sleep and to the next loop test.
C3_ThreadPolicy ==
  [][ (kind = "thread" /\ Fetched)
        => /\ (pc' = "returned")
                <=> (Last(observed') \in
                       {"completed", "failed", "terminated", "paused_for_approval"})
           /\ (pc' # "returned") => (pc' = "sleeping" /\ sleeping' = 1) ]_vars

C3_Witness ==
  /\ kind = "thread"
  /\ observed = <<"handed_off", "guardrail_trigger", "paused_for_approval">>
  /\ pc = "returned"

\* C4 (as claimed): every observation that opens a run of equal consecutive
\* statuses is notified and no other is, so the number of notifications is
\* the number of runs of the observed sequence.
NumberOfRuns(seq) ==
  Cardinality({i \in DOMAIN seq : i = 1 \/ seq[i] # seq[i - 1]})
C4_OneNotificationPerRun ==
  pc # "await" => Len(notifications) = NumberOfRuns(observed)

\* C5 (as claimed): with backoffMultiplier >= 1 the intervals slept are
\* non-decreasing and none exceeds maxIntervalMs.
C5_IntervalsMonotoneAndBounded ==
  (pc # "call" /\ FracLeq(FracOfInt(1), o.backoffMultiplier))
    => /\ \A i \in DOMAIN sleeps : FracLeq(sleeps[i], FracOfInt(o.maxIntervalMs))
       /\ \A i \in DOMAIN sleeps :
            i > 1 => FracLeq(sleeps[i - 1], sleeps[i])

\* C6: the first fetch of a poll call is issued before any sleep and at the
\* very time of the entry of the call, whatever initialIntervalMs is.
C6_FirstFetchImmediate ==
  /\ fetchCount = 0 => (sleeps = <<>> /\ sleeping = 0 /\ now = startTime)
  /\ (fetchCount = 1 /\ pc = "await") => (sleeps = <<>> /\ now = startTime)

C6_Witness ==
  /\ fetchCount = 1 /\ pc = "await"
  /\ o.initialIntervalMs = MaxInit

\* C7: a status that is none of the known terminal or early-return values is
\* Continue: the step that observes it neither returns nor throws, it starts
\* the sleep; a poll call returns only on a known value and throws only the
\* timeout (deadline passed) or the failure of its fetch.
C7_UnrecognizedContinues ==
  [][ /\ (Fetched /\ ~SpecStops(kind, Last(observed')))
           => (pc' = "sleeping" /\ err' = NoError /\ exitCode' = -1)
      /\ (pc' = "returned") => SpecStops(kind, result'.status)
      /\ (pc' = "thrown" /\ stage' = "poll")
           => \/ (raised' # NoError /\ err' = raised')
              \/ (err'.code = "POLL_TIMEOUT" /\ now' >= deadline') ]_vars

C7_Witness ==
  /\ observed = <<"some_future_status", "">>
  /\ pc = "sleeping"

\* C8: a failure of the fetch ends the poll call at once with that same
\* failure: the failing step emits nothing and starts no sleep, the error
\* thrown is the error raised, and afterwards there is no fetch, no sleep and
\* no notification.
C8_FetchFailurePropagates ==
  [][ /\ (raised = NoError /\ raised' # NoError)
           => /\ pc' = "thrown" /\ err' = raised'
              /\ notifications' = notifications
              /\ sleeps' = sleeps /\ sleeping' = 0
      /\ raised # NoError
           => /\ err' = raised /\ raised' = raised
              /\ fetchCount' = fetchCount /\ inflight' = 0
              /\ sleeps' = sleeps /\ sleeping' = 0
              /\ notifications' = notifications
              /\ reported'.code # "POLL_TIMEOUT" ]_vars

C8_Witness ==
  /\ pc = "exited"
  /\ raised.cls = "DevicApiError" /\ raised.statusCode = 404
  /\ fetchCount = 2
  /\ reported.code = "Not Found"

C10_TimeoutCarriesIdAndElapsed ==
  (pc = "thrown" /\ stage = "poll" /\ raised = NoError)
    => /\ id \in Range(err.message) \cup {err.code, err.errorType}
       /\ (now - startTime) \in {err.exitCode, err.statusCode}

\* the poll call has been entered and its locals are set
InPoll == stage = "poll" /\ pc # "call"
\* the poll call threw its own timeout
TimedOut == stage = "poll" /\ pc \in {"thrown", "exited"} /\ raised = NoError
PollEnded == stage = "poll" /\ pc \in {"returned", "done", "thrown", "exited"}
NotifiedStatuses == [i \in DOMAIN notifications |-> notifications[i].status]

\* C11: the deadline is start time + timeoutMs, and the timeout
\* is thrown no later than one current interval after the deadline.
C11_TimeoutWithinOneInterval ==
  /\ InPoll => deadline = startTime + o.timeoutMs
  /\ TimedOut => FracLeq(FracOfInt(now - deadline), interval)

\* C12: a poll call configured with timeoutMs <= 0 (deadline not after the
\* entry time) fails with the timeout error after at most one fetch, in
\* pollChat and in pollThread alike.
C12_PastDeadlineFailsWithTimeout ==
  (InPoll /\ "timeoutMs" \in opts.given /\ opts.val.timeoutMs <= 0)
    => /\ deadline <= startTime
       /\ fetchCount <= 1
       /\ pc \in {"loop", "thrown", "exited"}
       /\ (pc = "loop") => ENABLED LoopTimeout
       /\ (pc \in {"thrown", "exited"}) => err.code = "POLL_TIMEOUT"
       /\ (pc = "exited") => exitCode = 3

C12_Witness ==
  /\ kind = "thread"
  /\ pc = "exited" /\ stage = "poll"
  /\ "timeoutMs" \in opts.given /\ opts.val.timeoutMs = 0
  /\ err.code = "POLL_TIMEOUT"

\* C13 (as claimed): every poll call issues at least one fetch, whatever
\* timeoutMs is.
C13_AlwaysOneFetch == PollEnded => fetchCount >= 1

\* C13 (amended): the deadline is tested before every fetch, the first one
\* included: a poll call issues at least one fetch exactly when its deadline
\* lies after the entry time (timeoutMs > 0); with timeoutMs <= 0 it times
\* out without any fetch.
C13_FetchIffDeadlineAhead ==
  /\ PollEnded => ((fetchCount >= 1) <=> (o.timeoutMs > 0))
  /\ (InPoll /\ o.timeoutMs <= 0) => (fetchCount = 0 /\ requests = <<"POST">>)

C13_Witness ==
  /\ TimedOut /\ pc = "exited"
  /\ o.timeoutMs = 0
  /\ fetchCount = 0

\* C14 (as claimed): when the observed statuses are A, B, A with A # B and
\* both Continue, three notifications A, B, A are emitted in that order.
C14_OscillationReported ==
  (/\ InPoll /\ pc # "await" /\ Len(observed) = 3
   /\ observed[1] = observed[3] /\ observed[1] # observed[2]
   /\ ~SpecStops(kind, observed[1]) /\ ~SpecStops(kind, observed[2]))
    => NotifiedStatuses = observed

\* C15: a chat poll that observes processing, processing,
\* waiting_for_tool_response has returned the third snapshot at the third
\* fetch, after exactly two sleeps and exactly the two notifications
\* processing, waiting_for_tool_response; there is no fourth fetch.
C15_ChatScenario ==
  (kind = "chat"
   /\ observed = <<"processing", "processing", "waiting_for_tool_response">>)
    => /\ pc \in {"returned", "done"}
       /\ result.status = "waiting_for_tool_response" /\ result.seq = 3
       /\ fetchCount = 3 /\ inflight = 0
       /\ requests = <<"POST", "GET", "GET", "GET">>
       /\ Len(sleeps) = 2 /\ sleeping = 0
       /\ NotifiedStatuses = <<"processing", "waiting_for_tool_response">>
       /\ (pc = "done") => printed = result

C15_Witness ==
  /\ kind = "chat"
  /\ observed = <<"processing", "processing", "waiting_for_tool_response">>
  /\ pc = "done"

\* C16 (as claimed): a thread status notification of a snapshot with a task
\* list reports the pair (completed tasks, all tasks).
C16_ProgressPairReported ==
  \A i \in DOMAIN notifications :
    (notifications[i].type = "thread_status" /\ notifications[i].tasks.present)
      => emitted[i].progress =
           <<Cardinality({j \in DOMAIN notifications[i].tasks.list :
                            notifications[i].tasks.list[j]}),
             Len(notifications[i].tasks.list)>>

\* C16 (amended): the thread status notification carries the task list of
\* the snapshot.  In human format a non-empty list is written as the pair
\* (completed tasks, all tasks), so one completed and one uncompleted task
\* give (1, 2), and an empty or absent list gives no pair; in JSON format the
\* list itself is written and no pair.
C16_ProgressByFormat ==
  \A i \in DOMAIN notifications :
    LET n == notifications[i]
        e == emitted[i]
        l == n.tasks.list
    IN /\ (i = Len(notifications) /\ n.status = result.status /\ pc # "await"
           /\ result.seq = Len(observed) /\ observed[Len(observed)] = n.status
           /\ (Len(observed) = 1 \/ observed[Len(observed) - 1] # n.status))
            => n.tasks = result.tasks
       /\ (format = "human")
            => /\ e.stream = "stderr"
               /\ e.tasks = NoTasks
               /\ e.progress =
                    IF n.tasks.present /\ l # <<>>
                      THEN <<Cardinality({j \in DOMAIN l : l[j]}), Len(l)>>
                      ELSE <<>>
               /\ (l = <<TRUE, FALSE>>) => e.progress = <<1, 2>>
       /\ (format = "json")
            => /\ e.stream = "stdout"
               /\ e.tasks = n.tasks
               /\ e.progress = <<>>

C16_Witness ==
  /\ format = "human"
  /\ kind = "thread"
  /\ Len(emitted) = 2
  /\ emitted[2].status = "processing" /\ emitted[2].progress = <<1, 2>>

\* C17: without overrides pollChat runs with initial interval 1000 ms,
\* multiplier 1.5, maximum 10000 ms and timeout 300000 ms, and pollThread
\* with 2000 ms, 1.5, 15000 ms and 600000 ms.
C17_DefaultOptions ==
  (InPoll /\ opts.given = {})
    => /\ o.backoffMultiplier.n * 2 = o.backoffMultiplier.d * 3
       /\ (kind = "chat")
            => /\ o.initialIntervalMs = 1000 /\ o.maxIntervalMs = 10000
               /\ o.timeoutMs = 300000 /\ deadline = startTime + 300000
               /\ (Len(sleeps) >= 1) => (sleeps[1].n = 1000 * sleeps[1].d)
               /\ (Len(sleeps) >= 2) => (sleeps[2].n = 1500 * sleeps[2].d)
       /\ (kind = "thread")
            => /\ o.initialIntervalMs = 2000 /\ o.maxIntervalMs = 15000
               /\ o.timeoutMs = 600000 /\ deadline = startTime + 600000
               /\ (Len(sleeps) >= 1) => (sleeps[1].n = 2000 * sleeps[1].d)
               /\ (Len(sleeps) >= 2) => (sleeps[2].n = 3000 * sleeps[2].d)

C17_Witness ==
  /\ opts.given = {}
  /\ kind = "thread"
  /\ Len(sleeps) = 2
  /\ now >= 3000

\* C18 (as claimed): the effective options of every poll call satisfy
\* initialIntervalMs <= maxIntervalMs.
C18_InitialWithinMax == InPoll => o.initialIntervalMs <= o.maxIntervalMs

\* C19: within one poll call at most one fetch is in flight, and no fetch is
\* in flight while a sleep is pending: a fetch is only issued when the
\* previous fetch was answered and the previous timer has fired.
C19_NoOverlap ==
  /\ inflight \in {0, 1} /\ sleeping \in {0, 1}
  /\ inflight + sleeping <= 1
  /\ (pc = "await") <=> (inflight = 1)
  /\ (pc = "sleeping") <=> (sleeping = 1)

C19_Witness ==
  /\ pc = "await"
  /\ fetchCount = 3
  /\ Len(sleeps) = 2

\* C20: a command ends with exit code 3 on a poll timeout, 2 when no API key
\* is configured (thrown before any request is sent) or when the API answers
\* 401, 1 on every other API error or unknown error; on success no exit is
\* forced.
C20_ExitCodes ==
  /\ exitCode \in {-1, 1, 2, 3}
  /\ (pc = "exited")
       => /\ (err.code = "POLL_TIMEOUT") => exitCode = 3
          /\ (err.code = "AUTH_REQUIRED") => exitCode = 2
          /\ (err.cls = "DevicApiError" /\ err.statusCode = 401) => exitCode = 2
          /\ (err.cls = "DevicApiError" /\ err.statusCode # 401) => exitCode = 1
          /\ (err.cls = "Error") => exitCode = 1
          /\ err.cls \in {"DevicCliError", "DevicApiError", "Error"}
  /\ (~apiKey /\ pc # "start")
       => /\ pc \in {"thrown", "exited"}
          /\ err.code = "AUTH_REQUIRED"
          /\ requests = <<>>
  /\ (pc # "exited") => exitCode = -1
  /\ (pc = "done") => (printed = result /\ err = NoError)

C20_Witness ==
  /\ pc = "exited"
  /\ stage = "send"
  /\ err.cls = "DevicApiError" /\ err.statusCode = 401
  /\ exitCode = 2

\* C21: whatever the output format is, the error of a failed command is
\* written to stderr as a JSON object with the keys error and code.
C21_ErrorsAreJson ==
  (pc = "exited")
    => /\ written.stream = "stderr"
       /\ written.form = "json"
       /\ {"error", "code"} \subseteq written.fields

\* C22: loadConfig returns the environment's DEVIC_API_KEY (DEVIC_BASE_URL)
\* whenever it is set, whatever the file holds; otherwise the stored value;
\* and the base URL https://api.devic.ai when neither gives one.
C22_EnvironmentFirst ==
  [][ (config' # config)
        => /\ (env.apiKey # "undefined") => config'.apiKey = env.apiKey
           /\ (env.apiKey = "undefined")
                => config'.apiKey =
                     IF file.state = "parsed" THEN file.apiKey ELSE "undefined"
           /\ (env.baseUrl # "undefined") => config'.baseUrl = env.baseUrl
           /\ (env.baseUrl = "undefined" /\ file.state = "parsed"
                 /\ file.baseUrl # "undefined")
                => config'.baseUrl = file.baseUrl
           /\ (env.baseUrl = "undefined"
                 /\ (file.state # "parsed" \/ file.baseUrl = "undefined"))
                => config'.baseUrl = "https://api.devic.ai" ]_vars

C22_Witness ==
  /\ config.apiKey = "env-key" /\ config.baseUrl = "https://env.example"
  /\ file.state = "parsed"
  /\ file.apiKey = "devic-1" /\ file.baseUrl = "https://file.example"
  /\ lastAuth = "none"

RECURSIVE FracPow(_, _)
FracPow(m, k) == IF k = 0 THEN FracOfInt(1) ELSE FracMul(m, FracPow(m, k - 1))

\* initialIntervalMs * backoffMultiplier^(k-1), clamped to maxIntervalMs
ClampedGeometric(opt, k) ==
  FracMin(FracMul(FracOfInt(opt.initialIntervalMs),
                  FracPow(opt.backoffMultiplier, k - 1)),
          FracOfInt(opt.maxIntervalMs))

\* C23: in a poll call with initialIntervalMs <= maxIntervalMs the k-th
\* sleep is asked to last min(initialIntervalMs * backoffMultiplier^(k-1),
\* maxIntervalMs), and the interval kept for the next sleep follows the same
\* law: it is never reset.
C23_GeometricClamped ==
  (InPoll /\ o.initialIntervalMs <= o.maxIntervalMs)
    => /\ \A k \in DOMAIN sleeps : FracEq(sleeps[k], ClampedGeometric(o, k))
       /\ (pc \in {"loop", "await"})
            => FracEq(interval, ClampedGeometric(o, Len(sleeps) + 1))

C23_Witness ==
  /\ InPoll /\ o.initialIntervalMs <= o.maxIntervalMs
  /\ Len(sleeps) = 3
  /\ FracLt(sleeps[1], sleeps[2]) /\ FracLt(sleeps[2], sleeps[3])
  /\ FracEq(sleeps[3], FracOfInt(o.maxIntervalMs))
  /\ FracLt(FracOfInt(o.maxIntervalMs),
            FracMul(FracOfInt(o.initialIntervalMs),
                    FracPow(o.backoffMultiplier, 2)))

\* C24: the first successful fetch of a poll call emits a notification with
\* the status it returned, whatever that status is, the empty string
\* included.
C24_FirstFetchNotified ==
  (InPoll /\ Len(observed) >= 1)
    => /\ notifications # <<>>
       /\ notifications[1].status = observed[1]

\* C25: the value a poll call returns is the snapshot of its last fetch and
\* is not changed afterwards (the command prints that very value), and every
\* request the poll call sends is a GET: the only other request of the
\* command is the POST that precedes the poll call.
C25_SnapshotUnchangedReadOnly ==
  [][ /\ (pc' \in {"returned", "done"})
           => /\ result'.seq = fetchCount'
              /\ result'.status = Last(observed')
              /\ result'.tasks = Last(notifications').tasks
              /\ Len(observed') = fetchCount'
      /\ (pc = "returned") => (result' = result /\ printed' = result)
      /\ (stage' = "poll")
           => /\ Len(requests') = 1 + fetchCount'
              /\ requests'[1] = "POST"
              /\ \A i \in 2..Len(requests') : requests'[i] = "GET" ]_vars

C25_Witness ==
  /\ kind = "thread"
  /\ pc = "done"
  /\ fetchCount = 2
  /\ printed.tasks.present /\ printed.seq = 2
  /\ requests = <<"POST", "GET", "GET">>

OutcomeSnapshot ==
  /\ pc \in {"returned", "done"}
  /\ SpecStops(kind, result.status)
  /\ err = NoError /\ raised = NoError
OutcomeTimeout ==
  /\ pc \in {"thrown", "exited"}
  /\ raised = NoError
  /\ err.code = "POLL_TIMEOUT"
OutcomeFetchError ==
  /\ pc \in {"thrown", "exited"}
  /\ raised # NoError
  /\ err = raised

\* C26: a poll call that has ended has exactly one of three outcomes (a
\* snapshot with a Terminal or EarlyReturn status, the timeout error, the
\* error of the fetch); and when every fetch is answered and every timer
\* fires, a poll call that was entered does end.
C26_ThreeOutcomesAndTermination ==
  /\ [](PollEnded
          => /\ OutcomeSnapshot \/ OutcomeTimeout \/ OutcomeFetchError
             /\ ~(OutcomeSnapshot /\ OutcomeTimeout)
             /\ ~(OutcomeSnapshot /\ OutcomeFetchError)
             /\ ~(OutcomeTimeout /\ OutcomeFetchError))
  /\ (stage = "poll") ~> PollEnded

C26_Witness ==
  /\ OutcomeTimeout /\ stage = "poll"
  /\ fetchCount >= 2
  /\ FracLt(Last(sleeps), FracOfInt(1))

\* C27: when a poll call has returned a snapshot, the last notification of
\* the call, and the last status line written, carry the status of that
\* snapshot.
C27_ReturnedStatusNotified ==
  (pc \in {"returned", "done"})
    => /\ notifications # <<>>
       /\ Last(notifications).status = result.status
       /\ Last(notifications).id = id
       /\ Last(emitted).status = result.status

C27_Witness ==
  /\ pc = "returned"
  /\ fetchCount = 1
  /\ Len(notifications) = 1
  /\ notifications[1].status = "completed"

\* C28: fetches and sleeps alternate, starting with a fetch: nothing is
\* waited for before the first fetch, a call that returned after n fetches
\* slept n-1 times, a call that timed out after n fetches slept n times, and
\* there are never more notifications than fetches.
C28_FetchSleepAlternate ==
  /\ (InPoll /\ fetchCount = 0)
       => (sleeps = <<>> /\ sleeping = 0 /\ now = startTime)
  /\ Len(sleeps) \in {fetchCount - 1, fetchCount}
  /\ (pc = "await") => Len(sleeps) = fetchCount - 1
  /\ (pc \in {"sleeping", "loop"}) => Len(sleeps) = fetchCount
  /\ (pc \in {"returned", "done"}) => Len(sleeps) = fetchCount - 1
  /\ TimedOut => Len(sleeps) = fetchCount
  /\ Len(notifications) <= Len(observed) /\ Len(observed) <= fetchCount

C28_Witness ==
  /\ TimedOut
  /\ fetchCount = 3
  /\ Len(sleeps) = 3
  /\ Len(notifications) = 1

\* C29: in pollThread a fetched snapshot whose state equals the state of the
\* snapshot before it emits no notification, whatever its task list is.
C29_TasksAloneNotNotified ==
  [][ (kind = "thread" /\ Fetched /\ observed # <<>>
         /\ Last(observed') = Last(observed))
        => /\ notifications' = notifications
           /\ emitted' = emitted
           /\ lastStatus' = lastStatus ]_vars

C29_Witness ==
  /\ kind = "thread"
  /\ pc = "sleeping"
  /\ observed = <<"processing", "processing">>
  /\ Len(notifications) = 1
  /\ notifications[1].tasks.list = <<TRUE, FALSE>>
  /\ result.tasks.list = <<TRUE, TRUE>>

\* C30: auth login writes the file only when the test request was answered,
\* and leaves it as it was when the request failed; after an auth logout
\* that reported success, and without DEVIC_API_KEY, there is no API key in
\* what loadConfig returns, until a login succeeds.
C30_LoginLogoutStore ==
  [][ /\ (cmd.name = "login" /\ exitCode' # -1) => file' = file
      /\ (file' # file /\ file'.state = "parsed")
           => (cmd.name = "login" /\ exitCode' = -1 /\ lastAuth' = "login"
               /\ file'.apiKey = cmd.apiKey)
      /\ (lastAuth' = "logout" /\ env.apiKey = "undefined")
           => (file'.state # "parsed" \/ file'.apiKey = "undefined") ]_vars

====
